---- MODULE Spec2Model ----
(***************************************************************************)
(* Model of traduora-update: the reconciliation engine                     *)
(* (src/loader/data.rs), the window state (src/layout.rs) and the          *)
(* execution of the selected actions (src/updater.rs).                     *)
(*                                                                         *)
(* A term (key) is a Rust String, modelled as the sequence of its bytes,   *)
(* so that String::cmp is the lexicographic byte comparison StrCmp.        *)
(* A translation text is a TLA+ string; the code only tests texts for      *)
(* equality and emptiness.  A TermId is a TLA+ string.                     *)
(***************************************************************************)
EXTENDS Naturals, Integers, Sequences, FiniteSets, TLC

VARIABLES
    file,       \* records parsed from the local translation file, in file order
    store,      \* records fetched from Traduora, in arrival order
    history,    \* records parsed from the file at the configured git revision
    revision,   \* config revision(): "" when no revision is configured
    pc,         \* "start" before load_data runs, "done" after it returned Ok,
                \* "failed" after it returned Err
    calls,      \* the functions load_data called, in order, each with its outcome
    err,        \* the loader whose error load_data returned, "none" for Ok
    git,        \* the third argument load_data handed to merge
    tentative,  \* what the first filter_map of merge yields (lines 54-64)
    result,     \* the vector merge collected and load_data returned
    app,        \* layout::AppState: the three tabs and the popup
    upc,        \* "idle" until 'Update terms' is clicked, "spawned" once the
                \* worker thread owns the actions, "loop" inside updater::run
                \* with a client, "exec" between the progress callback and
                \* the first request of one action, "edit" between the two
                \* requests of add, "returned" after updater::run returned,
                \* "exited" after UPDATE_FINISHED was submitted
    translations, \* the vector wrapped_run moved into the worker thread
    client,     \* "none" before create_client, then "ok" or "failed"
    count,      \* how many actions the filter_map of updater::run has consumed
    progress,   \* the (current, total) pairs handed to the progress callback
    requests,   \* the requests sent to Traduora, each with its outcome
    attempted,  \* per consumed action: the action and the error it met
    errors,     \* the (term, translation, error) entries collected so far
    rresult,    \* the UpdateResult, <<"Pending">> until updater::run returns
    server,     \* the Traduora project: its terms and its translations
    sent,       \* the commands submitted by on_click and, through the
                \* ExtEventSink, by the worker thread, in order
    delivered,  \* how many of them Delegate::command has handled
    taken,      \* whether the SingleUse payload of UPDATE_FINISHED was taken
    handled,    \* what Delegate::command returned last, "none" before any
    clicked     \* the AppState at the click of 'Update terms'

loadVars == <<file, store, history, revision, pc, calls, err, git, tentative, result>>

\* The state of the worker thread and of what it talks to.
workerVars == <<upc, translations, client, count, progress, requests,
                attempted, errors, rresult, server, sent>>

\* The state of the window and of its delegate.
uiVars == <<app, delivered, taken, handled, clicked>>

updateVars == <<workerVars, uiVars>>

vars == <<loadVars, updateVars>>

----------------------------------------------------------------------------
(* Bounds and value domains                                                *)

\* Largest total number of records over the three snapshots of one run.
MaxRecords == 4

\* Largest number of actions shown in the window.
MaxActions == 2

\* "B", "a", "ab": byte order puts the upper-case key first and a proper
\* prefix before its extensions.
Terms == { <<66>>, <<97>>, <<97, 98>> }

Texts == { "", "x", "y" }

TermIds == { "id1", "id2", "id3" }

\* Traduora hands out one id per term.
IdAssignments ==
    { [t \in Terms |-> IF t = <<66>> THEN "id1" ELSE IF t = <<97>> THEN "id2" ELSE "id3"] }

----------------------------------------------------------------------------
(* Data types                                                              *)

\* local::Translation { term, translation }
LocalTranslation(term, translation) ==
    [term |-> term, translation |-> translation]

\* remote::Translation { term_id, term, translation }
RemoteTranslation(term_id, term, translation) ==
    [term_id |-> term_id, term |-> term, translation |-> translation]

\* enum Modification { Removed(TermId), Updated(TermId), Added }
ModRemoved(term_id) == <<"Removed", term_id>>
ModUpdated(term_id) == <<"Updated", term_id>>
ModAdded == <<"Added">>

\* Translation::added / removed / updated
TranslationAdded(term, translation) ==
    [term |-> term, translation |-> translation, modification |-> ModAdded]

TranslationRemoved(term, translation, term_id) ==
    [term |-> term, translation |-> translation, modification |-> ModRemoved(term_id)]

TranslationUpdated(term, translation, term_id) ==
    [term |-> term, translation |-> translation, modification |-> ModUpdated(term_id)]

\* Option<T>: None is the empty sequence, Some(x) the one-element sequence.
None == << >>
Some(x) == <<x>>

----------------------------------------------------------------------------
(* String order and sorting                                                *)

Min2(a, b) == IF a <= b THEN a ELSE b

\* <String as Ord>::cmp: lexicographic comparison of the bytes.
StrCmp(a, b) ==
    LET n == Min2(Len(a), Len(b))
        diff == { i \in 1..n : a[i] # b[i] }
    IN  IF diff # {}
        THEN LET i == CHOOSE j \in diff : \A k \in diff : j <= k
             IN  IF a[i] < b[i] THEN "Less" ELSE "Greater"
        ELSE IF Len(a) < Len(b) THEN "Less"
        ELSE IF Len(a) > Len(b) THEN "Greater"
        ELSE "Equal"

\* Translation::cmp_by_term of local.rs and remote.rs
CmpByTerm(x, y) == StrCmp(x.term, y.term)

\* Sequence s without its element at position i.
RemoveAt(s, i) == [j \in 1..(Len(s) - 1) |-> IF j < i THEN s[j] ELSE s[j + 1]]

\* Variant of SortByTerm that leaves the records in arrival order.
SortByTerm_None(s) == { s }

\* sort_unstable_by(cmp_by_term): the vectors the sort may leave, which are
\* the arrangements of the records of s that ascend by term.  Records with
\* equal terms end in an order the sort does not specify; with unique terms
\* there is one result.
RECURSIVE SortByTerm(_)
SortByTerm(s) ==
    IF s = << >> THEN { << >> }
    ELSE LET least == { i \in 1..Len(s) :
                          \A j \in 1..Len(s) : CmpByTerm(s[i], s[j]) # "Greater" }
         IN  UNION { { <<s[i]>> \o rest : rest \in SortByTerm(RemoveAt(s, i)) } :
                       i \in least }

----------------------------------------------------------------------------
(* itertools::merge_join_by and filter_map                                 *)

\* EitherOrBoth::{Left, Right, Both}
Left(l) == <<"Left", l>>
Right(r) == <<"Right", r>>
Both(l, r) == <<"Both", l, r>>

\* merge_join_by(l, r, |x, y| x.term.cmp(&y.term)): one scan over the two
\* heads; the smaller head is emitted alone, equal heads are emitted together.
RECURSIVE MergeJoinBy(_, _)
MergeJoinBy(l, r) ==
    IF l = << >> /\ r = << >> THEN << >>
    ELSE IF r = << >> THEN <<Left(Head(l))>> \o MergeJoinBy(Tail(l), r)
    ELSE IF l = << >> THEN <<Right(Head(r))>> \o MergeJoinBy(l, Tail(r))
    ELSE LET c == StrCmp(Head(l).term, Head(r).term)
         IN  IF c = "Less" THEN <<Left(Head(l))>> \o MergeJoinBy(Tail(l), r)
             ELSE IF c = "Greater" THEN <<Right(Head(r))>> \o MergeJoinBy(l, Tail(r))
             ELSE <<Both(Head(l), Head(r))>> \o MergeJoinBy(Tail(l), Tail(r))

\* Iterator::filter_map, applied to the sequence of the closure's Options:
\* keeps the payload of every Some, in order.
RECURSIVE FilterMap(_)
FilterMap(opts) ==
    IF opts = << >> THEN << >> ELSE Head(opts) \o FilterMap(Tail(opts))

----------------------------------------------------------------------------
(* merge, first stage: local x remote                                      *)

\* Variant of TwoWayBoth without the is_empty test.
TwoWayBoth_NoEmptyCheck(local, remote) ==
    IF local.translation # remote.translation
    THEN Some(TranslationUpdated(local.term, local.translation, remote.term_id))
    ELSE None

\* Variant of TwoWayBoth that passes on the remote text.
TwoWayBoth_RemoteText(local, remote) ==
    IF local.translation # remote.translation /\ local.translation # ""
    THEN Some(TranslationUpdated(local.term, remote.translation, remote.term_id))
    ELSE None

\* Variant of TwoWayBoth without the comparison of the two texts.
TwoWayBoth_NoCompare(local, remote) ==
    IF local.translation # ""
    THEN Some(TranslationUpdated(local.term, local.translation, remote.term_id))
    ELSE None

\* EitherOrBoth::Both(local, remote): an update unless the texts agree or the
\* local text is empty.
TwoWayBoth(local, remote) ==
    IF local.translation # remote.translation /\ local.translation # ""
    THEN Some(TranslationUpdated(local.term, local.translation, remote.term_id))
    ELSE None

\* EitherOrBoth::Left(local)
TwoWayLeft(local) ==
    Some(TranslationAdded(local.term, local.translation))

\* EitherOrBoth::Right(remote)
TwoWayRight(remote) ==
    Some(TranslationRemoved(remote.term, remote.translation, remote.term_id))

\* The closure of the first filter_map.
TwoWay(e) ==
    IF e[1] = "Both" THEN TwoWayBoth(e[2], e[3])
    ELSE IF e[1] = "Left" THEN TwoWayLeft(e[2])
    ELSE TwoWayRight(e[2])

\* The first join and filter_map of merge on the sorted vectors l and r.
TwoWayMerge(l, r) ==
    LET joined == MergeJoinBy(l, r)
    IN  FilterMap([i \in 1..Len(joined) |-> TwoWay(joined[i])])

\* Variant of Tentative that joins the inputs as they arrive.
Tentative_Unsorted(local, remote) ==
    { TwoWayMerge(local, remote) }

\* The tentative sequences merge may compute: sort both inputs, join them,
\* classify each outcome.
Tentative(local, remote) ==
    { TwoWayMerge(l, r) : l \in SortByTerm(local), r \in SortByTerm(remote) }

----------------------------------------------------------------------------
(* merge, second stage: tentative x git                                    *)

IsRemoved(t) == t.modification[1] = "Removed"
IsUpdated(t) == t.modification[1] = "Updated"
IsAdded(t) == t.modification[1] = "Added"

\* Variant of RefineLeft without the Removed arm.
RefineLeft_KeepRemoved(t) == Some(t)

\* Variant of RefineLeft whose fallback arm drops the action.
RefineLeft_DropRest(t) == None

\* EitherOrBoth::Left(t): the first arm drops a Removed, the last arm keeps
\* every other action.
RefineLeft(t) ==
    IF IsRemoved(t) THEN None ELSE Some(t)

\* Variant of RefineBoth that keeps every Updated.
RefineBoth_KeepUpdated(t, g) ==
    IF IsRemoved(t) THEN Some(t)
    ELSE IF IsAdded(t) THEN None
    ELSE Some(t)

\* Variant of RefineBoth with the text comparison inverted.
RefineBoth_InvertedCompare(t, g) ==
    IF IsRemoved(t) THEN Some(t)
    ELSE IF IsAdded(t) THEN None
    ELSE IF t.translation = g.translation THEN Some(t) ELSE None

\* Variant of RefineBoth that keeps an Added.
RefineBoth_KeepAdded(t, g) ==
    IF IsRemoved(t) THEN Some(t)
    ELSE IF IsAdded(t) THEN Some(t)
    ELSE IF t.translation # g.translation THEN Some(t) ELSE None

\* Variant of RefineBoth that drops a Removed.
RefineBoth_DropRemoved(t, g) ==
    IF IsRemoved(t) THEN None
    ELSE IF IsAdded(t) THEN None
    ELSE IF t.translation # g.translation THEN Some(t) ELSE None

\* Variant of RefineBoth that hands on the baseline text of a kept Updated.
RefineBoth_BaselineText(t, g) ==
    IF IsRemoved(t) THEN Some(t)
    ELSE IF IsAdded(t) THEN None
    ELSE IF t.translation # g.translation
         THEN Some([t EXCEPT !.translation = g.translation])
         ELSE None

\* EitherOrBoth::Both(t, g): match t.modification
RefineBoth(t, g) ==
    IF IsRemoved(t) THEN Some(t)
    ELSE IF IsAdded(t) THEN None
    ELSE IF t.translation # g.translation THEN Some(t) ELSE None

\* Variant of Refine that re-creates a term found only in the history.
Refine_EmitRight(e) ==
    IF e[1] = "Right" THEN Some(TranslationAdded(e[2].term, e[2].translation))
    ELSE IF e[1] = "Both" THEN RefineBoth(e[2], e[3])
    ELSE RefineLeft(e[2])

\* The closure of the second filter_map.  Left(Removed) | Right(_) => None
\* comes first, then Both, then the remaining Left.
Refine(e) ==
    IF e[1] = "Right" THEN None
    ELSE IF e[1] = "Both" THEN RefineBoth(e[2], e[3])
    ELSE RefineLeft(e[2])

\* The second join and filter_map of merge on the tentative sequence t and
\* the sorted vector g.
RefineMerge(t, g) ==
    LET joined == MergeJoinBy(t, g)
    IN  FilterMap([i \in 1..Len(joined) |-> Refine(joined[i])])

\* What merge may return once its first stage yielded t.
MergeTentative(t, gitv) ==
    { RefineMerge(t, g) : g \in SortByTerm(gitv) }

\* fn merge(local, remote, gitv) -> Vec<Translation>: the vectors it may
\* return, one if no term is repeated within an input.
Merge(local, remote, gitv) ==
    UNION { MergeTentative(t, gitv) : t \in Tentative(local, remote) }

\* load_data: the git vector is empty when no revision is configured.
GitArg(rev, hist) ==
    IF rev = "" THEN << >> ELSE hist

\* The loaders load_data calls, in order; load_from_git only with a revision.
Loaders(rev) ==
    IF rev = ""
    THEN <<"load_from_file", "fetch_from_traduora">>
    ELSE <<"load_from_file", "fetch_from_traduora", "load_from_git">>

\* Variant of LoadCalls that replaces a failed git lookup by an empty vector
\* and goes on to merge.
LoadCalls_GitDefault(rev, nok) ==
    LET ls == Loaders(rev)
    IN  IF nok = Len(ls)
        THEN [i \in 1..Len(ls) |-> <<ls[i], "ok">>] \o << <<"merge", "ok">> >>
        ELSE IF ls[nok + 1] = "load_from_git"
        THEN [i \in 1..(nok + 1) |-> <<ls[i], IF i <= nok THEN "ok" ELSE "failed">>]
                 \o << <<"merge", "ok">> >>
        ELSE [i \in 1..(nok + 1) |-> <<ls[i], IF i <= nok THEN "ok" ELSE "failed">>]

\* The calls of one run of load_data in which the first nok loaders succeed:
\* each `?` returns at the first failure, merge is called after the last
\* loader succeeded.
LoadCalls(rev, nok) ==
    LET ls == Loaders(rev)
    IN  IF nok = Len(ls)
        THEN [i \in 1..Len(ls) |-> <<ls[i], "ok">>] \o << <<"merge", "ok">> >>
        ELSE [i \in 1..(nok + 1) |-> <<ls[i], IF i <= nok THEN "ok" ELSE "failed">>]

\* The error a `?` of load_data returned: the loader that failed.
LoadError(cs) ==
    IF \E i \in 1..Len(cs) : cs[i][2] = "failed"
    THEN cs[CHOOSE i \in 1..Len(cs) : cs[i][2] = "failed"][1]
    ELSE "none"

MergeCalled(cs) == \E i \in 1..Len(cs) : cs[i][1] = "merge"

----------------------------------------------------------------------------
(* layout::AppState                                                        *)

\* ModificationEntry::added / removed / updated: a new entry is active.
EntryAdded(term, translation) ==
    [active |-> TRUE, term |-> term, translation |-> translation,
     modification |-> <<"Added">>]

EntryRemoved(term, translation, id) ==
    [active |-> TRUE, term |-> term, translation |-> translation,
     modification |-> <<"Removed", id>>]

EntryUpdated(term, translation, id) ==
    [active |-> TRUE, term |-> term, translation |-> translation,
     modification |-> <<"Updated", id>>]

\* From<im::Vector<ModificationEntry<T>>> for TabData<T>
TabDataFrom(entries) ==
    [select_all_active |-> TRUE, entries |-> entries]

\* Popup::default()
PopupDefault == <<"Progressing", 0, 1>>

\* AppState::build: fold the actions into the three tabs, in input order.
RECURSIVE BuildEntries(_, _)
BuildEntries(ts, kind) ==
    IF ts = << >> THEN << >>
    ELSE LET t == Head(ts)
             e == IF IsRemoved(t) THEN EntryRemoved(t.term, t.translation, t.modification[2])
                  ELSE IF IsAdded(t) THEN EntryAdded(t.term, t.translation)
                  ELSE EntryUpdated(t.term, t.translation, t.modification[2])
         IN  (IF t.modification[1] = kind THEN <<e>> ELSE << >>) \o BuildEntries(Tail(ts), kind)

AppStateBuild(ts) ==
    [added |-> TabDataFrom(BuildEntries(ts, "Added")),
     removed |-> TabDataFrom(BuildEntries(ts, "Removed")),
     updated |-> TabDataFrom(BuildEntries(ts, "Updated")),
     popup |-> PopupDefault]

\* extract of extract_translations: the active entries of one tab, in order,
\* each rebuilt by the tab's constructor.
RECURSIVE Extract(_, _)
Extract(entries, kind) ==
    IF entries = << >> THEN << >>
    ELSE LET e == Head(entries)
             t == IF kind = "Added" THEN TranslationAdded(e.term, e.translation)
                  ELSE IF kind = "Removed"
                       THEN TranslationRemoved(e.term, e.translation, e.modification[2])
                       ELSE TranslationUpdated(e.term, e.translation, e.modification[2])
         IN  (IF e.active THEN <<t>> ELSE << >>) \o Extract(Tail(entries), kind)

\* Variant of ExtractTranslations that ignores the check boxes.
ExtractTranslations_All(a) ==
    LET on(es) == [i \in 1..Len(es) |-> [es[i] EXCEPT !.active = TRUE]]
    IN  Extract(on(a.added.entries), "Added")
            \o Extract(on(a.removed.entries), "Removed")
            \o Extract(on(a.updated.entries), "Updated")

\* Variant of ExtractTranslations that starts with the removed tab.
ExtractTranslations_RemovedFirst(a) ==
    Extract(a.removed.entries, "Removed")
        \o Extract(a.added.entries, "Added")
        \o Extract(a.updated.entries, "Updated")

\* AppState::extract_translations: added, then removed, then updated.
ExtractTranslations(a) ==
    Extract(a.added.entries, "Added")
        \o Extract(a.removed.entries, "Removed")
        \o Extract(a.updated.entries, "Updated")

Tabs == { "added", "removed", "updated" }

\* The item Checkbox bound to ModificationEntry::active.
ToggleEntry(a, tab, i) ==
    [a EXCEPT ![tab].entries[i].active = ~@]

\* The tab Checkbox under OmniSelector: the flag flips, then every entry of the
\* tab takes the flag's value.
ToggleSelectAll(a, tab) ==
    LET flag == ~a[tab].select_all_active
    IN  [a EXCEPT ![tab] =
            [select_all_active |-> flag,
             entries |-> [i \in 1..Len(a[tab].entries) |->
                             [a[tab].entries[i] EXCEPT !.active = flag]]]]

----------------------------------------------------------------------------
(* updater::run                                                            *)

\* The id Traduora returns for a term it created: one no term had before.
NewTermId(term) ==
    IF term = <<66>> THEN "new-B" ELSE IF term = <<97>> THEN "new-a" ELSE "new-ab"

\* remove: one DeleteTerm request.
RemoveRequests(term_id, ok) ==
    << <<"DeleteTerm", term_id, ok>> >>

\* update: one EditTranslation request.
UpdateRequests(term_id, translation, ok) ==
    << <<"EditTranslation", term_id, translation, ok>> >>

\* add, first query: CreateTerm for the term.
CreateRequest(term, ok) ==
    <<"CreateTerm", term, ok>>

\* add, second query: EditTranslation for the term the create returned.
AddEditRequest(term, translation, ok) ==
    <<"EditTranslation", NewTermId(term), translation, ok>>

\* The first request of an action: the one request of remove and of update,
\* the CreateTerm of add.
FirstRequest(t, ok) ==
    IF IsRemoved(t) THEN RemoveRequests(t.modification[2], ok)[1]
    ELSE IF IsUpdated(t) THEN UpdateRequests(t.modification[2], t.translation, ok)[1]
    ELSE CreateRequest(t.term, ok)

RequestOk(rq) == rq[Len(rq)]

\* The context of the anyhow error of a failed request.
RequestError(t, rq) ==
    IF rq[1] = "DeleteTerm" THEN "Failed to delete term"
    ELSE IF rq[1] = "CreateTerm" THEN "Failed to create term"
    ELSE IF IsAdded(t) THEN "Failed to set translation for new term"
    ELSE "Failed to update term"

\* The closure of run's filter_map for one action whose last request was rq:
\* None if it succeeded, else Some((term, translation, error)).
StepError(t, rq) ==
    IF RequestOk(rq) THEN None
    ELSE Some(<<t.term, t.translation, RequestError(t, rq)>>)

\* Variant of AfterCreateClient that enters the loop without a client.
AfterCreateClient_GoOn(ok) == "loop"

\* create_client().map_err(Error::ClientCreation)?: run goes on to the loop
\* with a client and returns at once without one.
AfterCreateClient(ok) == IF ok THEN "loop" ELSE "returned"

\* Variant of LoopDone that gives up at the first failed action.
LoopDone_StopOnError(n, total, errs) ==
    n = total \/ errs # << >>

\* The iterator of run is exhausted after the last action, whatever failed.
LoopDone(n, total, errs) ==
    n = total

\* Variant of RunResult that reports only the first failure.
RunResult_FirstOnly(errs) ==
    IF errs = << >> THEN <<"Ok">> ELSE <<"Update", <<errs[1]>>>>

\* Ok(()) if no error was collected, else Err(Error::Update(errors)).
RunResult(errs) ==
    IF errs = << >> THEN <<"Ok">> ELSE <<"Update", errs>>

----------------------------------------------------------------------------
(* layout: the worker thread's commands and the delegate                   *)

Range(s) == { s[i] : i \in 1..Len(s) }

\* Variant of ProgressCommand that counts the actions already consumed.
ProgressCommand_Consumed(current, max) ==
    <<"UPDATE_PROGRESS", current - 1, IF max >= 1 THEN max ELSE 1>>

\* The progress closure of wrapped_run: UPDATE_PROGRESS carries
\* current / max.max(1), kept as numerator and denominator.
ProgressCommand(current, max) ==
    <<"UPDATE_PROGRESS", current, IF max >= 1 THEN max ELSE 1>>

\* UPDATE_FINISHED carries the result of updater::run.
FinishedCommand(res) == <<"UPDATE_FINISHED", res>>

\* ModalHost::make_modal_command(build_popup), submitted by on_click.
ModalCommand == <<"SHOW_MODAL">>

\* ModalHost::DISMISS_MODAL, submitted by the Ok button of the popup.
DismissModal == <<"DISMISS_MODAL">>

\* Delegate::command, UPDATE_PROGRESS: only the popup changes.
DelegateProgress(a, cmd) ==
    [a EXCEPT !.popup = <<"Progressing", cmd[2], cmd[3]>>]

\* Variant of DelegateFinished that keeps the lists and sets only the popup.
DelegateFinished_PopupOnly(a, loaded, res) ==
    [a EXCEPT !.popup = <<"Finished", res>>]

\* Delegate::command, UPDATE_FINISHED: the state is replaced by one built from
\* the loaded actions, and the popup shows the result.
DelegateFinished(a, loaded, res) ==
    [AppStateBuild(loaded) EXCEPT !.popup = <<"Finished", res>>]

\* Delegate::command for the state a, the command cmd, whether the payload of
\* the UPDATE_FINISHED was taken before (tk), and what load_data returns if
\* it is called: the state, the flag and Handled afterwards.  Every command
\* that is neither an UPDATE_PROGRESS nor an UPDATE_FINISHED with its payload
\* is not handled and changes nothing.
DelegateCommand(a, cmd, tk, loaded) ==
    IF cmd[1] = "UPDATE_PROGRESS"
    THEN [app |-> DelegateProgress(a, cmd), taken |-> tk, handled |-> "Yes"]
    ELSE IF cmd[1] = "UPDATE_FINISHED" /\ ~tk
    THEN [app |-> DelegateFinished(a, loaded, cmd[2]), taken |-> TRUE, handled |-> "Yes"]
    ELSE [app |-> a, taken |-> tk, handled |-> "No"]

----------------------------------------------------------------------------
(* The Traduora project and loader::remote                                 *)

\* A term and a translation as the Terms and Translations endpoints list them.
RemoteTerm(id, value) == [id |-> id, value |-> value]
RemoteText(term_id, value) == [term_id |-> term_id, value |-> value]

\* The project after one request of updater.rs: DeleteTerm drops the term and
\* its translation, CreateTerm adds a term without translation,
\* EditTranslation sets the translation of a term.  A request that failed
\* left the project as it was.
ServerApply(sv, rq) ==
    IF ~RequestOk(rq) THEN sv
    ELSE IF rq[1] = "DeleteTerm"
    THEN [terms |-> { t \in sv.terms : t.id # rq[2] },
          translations |-> { x \in sv.translations : x.term_id # rq[2] }]
    ELSE IF rq[1] = "CreateTerm"
    THEN [sv EXCEPT !.terms = @ \cup { RemoteTerm(NewTermId(rq[2]), rq[2]) }]
    ELSE [sv EXCEPT !.translations =
              { x \in @ : x.term_id # rq[2] } \cup { RemoteText(rq[2], rq[3]) }]

\* Traduora keeps the values of the terms of a project unique: a CreateTerm
\* for a value the project holds does not succeed.
ServerAccepts(sv, rq) ==
    (rq[1] = "CreateTerm" /\ RequestOk(rq)) => \A t \in sv.terms : t.value # rq[2]

\* The bytes of a TermId, which compares as the String it wraps.
IdBytes(id) ==
    CASE id = "id1" -> <<105, 100, 49>>
      [] id = "id2" -> <<105, 100, 50>>
      [] id = "id3" -> <<105, 100, 51>>
      [] id = "new-B" -> <<110, 101, 119, 45, 66>>
      [] id = "new-a" -> <<110, 101, 119, 45, 97>>
      [] id = "new-ab" -> <<110, 101, 119, 45, 97, 98>>

\* terms.sort_unstable_by(|t1, t2| t1.id.cmp(&t2.id)) on the listed terms:
\* ascending by id, whatever order the endpoint listed them in.
RECURSIVE SortTermsById(_)
SortTermsById(ts) ==
    IF ts = {} THEN << >>
    ELSE LET m == CHOOSE t \in ts :
                      \A u \in ts : StrCmp(IdBytes(t.id), IdBytes(u.id)) # "Greater"
         IN  <<m>> \o SortTermsById(ts \ {m})

\* translations.sort_unstable_by(|t1, t2| t1.term_id.cmp(&t2.term_id))
RECURSIVE SortTextsByTermId(_)
SortTextsByTermId(xs) ==
    IF xs = {} THEN << >>
    ELSE LET m == CHOOSE x \in xs :
                      \A u \in xs :
                          StrCmp(IdBytes(x.term_id), IdBytes(u.term_id)) # "Greater"
         IN  <<m>> \o SortTextsByTermId(xs \ {m})

\* merge_join_by(translations, |term, tl| term.id.cmp(&tl.term_id))
RECURSIVE JoinById(_, _)
JoinById(l, r) ==
    IF l = << >> /\ r = << >> THEN << >>
    ELSE IF r = << >> THEN <<Left(Head(l))>> \o JoinById(Tail(l), r)
    ELSE IF l = << >> THEN <<Right(Head(r))>> \o JoinById(l, Tail(r))
    ELSE LET c == StrCmp(IdBytes(Head(l).id), IdBytes(Head(r).term_id))
         IN  IF c = "Less" THEN <<Left(Head(l))>> \o JoinById(Tail(l), r)
             ELSE IF c = "Greater" THEN <<Right(Head(r))>> \o JoinById(l, Tail(r))
             ELSE <<Both(Head(l), Head(r))>> \o JoinById(Tail(l), Tail(r))

\* Variant of FetchEntry that drops a term without translation.
FetchEntry_DropUntranslated(e) ==
    IF e[1] = "Both" THEN Some(RemoteTranslation(e[2].id, e[2].value, e[3].value))
    ELSE None

\* The closure of the filter_map of fetch_from_traduora: a term with its
\* translation, a term without translation with the empty text, and nothing
\* for a translation without term.
FetchEntry(e) ==
    IF e[1] = "Both" THEN Some(RemoteTranslation(e[2].id, e[2].value, e[3].value))
    ELSE IF e[1] = "Left" THEN Some(RemoteTranslation(e[2].id, e[2].value, ""))
    ELSE None

\* fn fetch_from_traduora() -> Result<Vec<Translation>>, when it succeeds
FetchFromTraduora(sv) ==
    LET joined == JoinById(SortTermsById(sv.terms), SortTextsByTermId(sv.translations))
    IN  FilterMap([i \in 1..Len(joined) |-> FetchEntry(joined[i])])

\* The project whose fetch returns the records of remote.
ServerOf(remote) ==
    [terms |-> { RemoteTerm(remote[i].term_id, remote[i].term) : i \in 1..Len(remote) },
     translations |->
         { RemoteText(remote[i].term_id, remote[i].translation) : i \in 1..Len(remote) }]

----------------------------------------------------------------------------
(* Snapshots                                                               *)

NumTerms == Cardinality(Terms)

\* No term is repeated in s.
UniqueTerms(s) == \A i, j \in 1..Len(s) : s[i].term = s[j].term => i = j

LocalRecords == { LocalTranslation(k, t) : k \in Terms, t \in Texts }

RemoteRecords(ids) == { RemoteTranslation(ids[k], k, t) : k \in Terms, t \in Texts }

\* What load_from_file and load_from_git may return for a file of n entries:
\* visit_map pushes one record per entry, in file order, also for a key the
\* file repeats.
LocalSnapshots ==
    [n \in 0..NumTerms |-> [1..n -> LocalRecords]]

\* What fetch_from_traduora may return for a project of n terms, in every
\* order: Traduora keeps the values and the ids of the terms of a project
\* unique.
RemoteSnapshots ==
    [n \in 0..NumTerms |->
        UNION { { s \in [1..n -> RemoteRecords(ids)] : UniqueTerms(s) } : ids \in IdAssignments }]

Revisions == { "", "main" }

\* What load_data can return for one term: an Added with or without text, a
\* Removed or an Updated with the term's remote id.
ActionsOf(k) ==
    LET ids == CHOOSE f \in IdAssignments : f[<<66>>] = "id1"
    IN  { TranslationAdded(k, ""), TranslationAdded(k, "x"),
          TranslationRemoved(k, "y", ids[k]), TranslationUpdated(k, "x", ids[k]) }

\* Whether load_data can return the sequence q from a project with unique
\* terms: q ascends by term, and where a term has several actions (the file
\* repeats the key) the first is an Added or the Updated and the others are
\* Added.
Realisable(q) ==
    \A i \in 1..(Len(q) - 1) :
        /\ StrCmp(q[i].term, q[i + 1].term) # "Greater"
        /\ q[i].term = q[i + 1].term => IsAdded(q[i + 1]) /\ ~IsRemoved(q[i])

\* The terms of the action sequences shown in the window.
UpdateTerms == { <<66>>, <<97>> }

\* The action sequences shown in the window: at most MaxActions actions.
ActionLists ==
    LET all == UNION { ActionsOf(k) : k \in UpdateTerms }
    IN  UNION { { q \in [1..n -> all] : Realisable(q) } : n \in 0..MaxActions }

\* The local file, the Traduora project and the file at the revision for which
\* load_data returns the actions ts: the file holds the added and the updated
\* terms, the project the removed and the updated ones, and the revision the
\* removed ones, which confirms the removals.
FileOf(ts) ==
    LET notRemoved(t) == ~IsRemoved(t)
        kept == SelectSeq(ts, notRemoved)
    IN  [i \in 1..Len(kept) |-> LocalTranslation(kept[i].term, kept[i].translation)]

ProjectOf(ts) ==
    LET onServer == { i \in 1..Len(ts) : ~IsAdded(ts[i]) }
    IN  [terms |-> { RemoteTerm(ts[i].modification[2], ts[i].term) : i \in onServer },
         translations |-> { RemoteText(ts[i].modification[2], "y") : i \in onServer }]

HistoryOf(ts) ==
    LET removed == SelectSeq(ts, IsRemoved)
    IN  [i \in 1..Len(removed) |->
            LocalTranslation(removed[i].term, removed[i].translation)]

----------------------------------------------------------------------------
(* Specification                                                           *)

\* The window shows the actions ts; 'Update terms' was not clicked yet.
UpdateIdle(ts) ==
    /\ app = AppStateBuild(ts)
    /\ upc = "idle"
    /\ translations = << >>
    /\ client = "none"
    /\ count = 0
    /\ progress = << >>
    /\ requests = << >>
    /\ attempted = << >>
    /\ errors = << >>
    /\ rresult = <<"Pending">>
    /\ sent = << >>
    /\ delivered = 0
    /\ taken = FALSE
    /\ handled = "none"
    /\ clicked = app

\* Before load_data runs: any local file, any remote store and any file content
\* at the revision, each in any record order, with or without a configured
\* revision.  Without a revision no file content is read from git, and it is
\* left empty.
Init ==
    /\ \E nl, nr, ng \in 0..NumTerms :
          /\ nl + nr + ng <= MaxRecords
          /\ file \in LocalSnapshots[nl]
          /\ store \in RemoteSnapshots[nr]
          /\ history \in LocalSnapshots[ng]
    /\ revision \in Revisions
    /\ revision = "" => history = << >>
    /\ pc = "start"
    /\ calls = << >>
    /\ err = "none"
    /\ git = << >>
    /\ tentative = << >>
    /\ result = << >>
    /\ server = ServerOf(store)
    /\ UpdateIdle(<< >>)

\* pub fn load_data(): call the loaders, any of which may fail, and merge what
\* they returned.
LoadData ==
    /\ pc = "start"
    /\ \E nok \in 0..Len(Loaders(revision)) : calls' = LoadCalls(revision, nok)
    /\ err' = LoadError(calls')
    /\ pc' = IF err' = "none" THEN "done" ELSE "failed"
    /\ git' = IF MergeCalled(calls') THEN GitArg(revision, history) ELSE << >>
    /\ IF MergeCalled(calls')
       THEN \E t \in Tentative(file, store) :
               /\ tentative' = t
               /\ result' \in MergeTentative(t, git')
       ELSE tentative' = << >> /\ result' = << >>
    /\ UNCHANGED <<file, store, history, revision>>
    /\ UNCHANGED updateVars

Next == LoadData

Spec == Init /\ [][Next]_vars

----------------------------------------------------------------------------
(* Specification of the update: the window, the click, the worker thread   *)

\* The window after main built it from a load_data that succeeded.
InitUpdate ==
    /\ \E ts \in ActionLists :
          /\ file = FileOf(ts)
          /\ server = ProjectOf(ts)
          /\ history = HistoryOf(ts)
    /\ revision = "main"
    /\ calls = LoadCalls(revision, Len(Loaders(revision)))
    /\ err = "none"
    /\ pc = "done"
    /\ store = FetchFromTraduora(server)
    /\ git = GitArg(revision, history)
    /\ \E t \in Tentative(file, store) :
          /\ tentative = t
          /\ result \in MergeTentative(t, git)
    /\ UpdateIdle(result)

\* The user ticks or unticks one entry before the click.
Toggle ==
    /\ upc = "idle"
    /\ \E tab \in Tabs : \E i \in 1..Len(app[tab].entries) :
          app' = ToggleEntry(app, tab, i)
    /\ UNCHANGED <<delivered, taken, handled, clicked>>
    /\ UNCHANGED workerVars
    /\ UNCHANGED loadVars

\* The user ticks or unticks 'Select all' / 'Deselect all' of one tab.
ToggleAll ==
    /\ upc = "idle"
    /\ \E tab \in Tabs : app' = ToggleSelectAll(app, tab)
    /\ UNCHANGED <<delivered, taken, handled, clicked>>
    /\ UNCHANGED workerVars
    /\ UNCHANGED loadVars

\* on_click of 'Update terms': reset the popup, submit the command that shows
\* it, then wrapped_run extracts the active entries and moves them into the
\* worker thread.
ClickUpdate ==
    /\ upc = "idle"
    /\ app' = [app EXCEPT !.popup = PopupDefault]
    /\ sent' = Append(sent, ModalCommand)
    /\ translations' = ExtractTranslations(app')
    /\ clicked' = app
    /\ upc' = "spawned"
    /\ UNCHANGED <<client, count, progress, requests, attempted, errors,
                   rresult, server>>
    /\ UNCHANGED <<delivered, taken, handled>>
    /\ UNCHANGED loadVars

\* on_click of the popup's 'Ok', which the popup shows once it is Finished and
\* until it is closed: submit the command that closes the popup.
ClickOk ==
    /\ app.popup[1] = "Finished"
    /\ DismissModal \notin Range(sent)
    /\ sent' = Append(sent, DismissModal)
    /\ UNCHANGED <<upc, translations, client, count, progress, requests,
                   attempted, errors, rresult, server>>
    /\ UNCHANGED uiVars
    /\ UNCHANGED loadVars

\* updater::run, first line: create_client may fail, and then run returns
\* Error::ClientCreation at once.
CreateClient ==
    /\ upc = "spawned"
    /\ \E ok \in BOOLEAN :
          /\ client' = IF ok THEN "ok" ELSE "failed"
          /\ upc' = AfterCreateClient(ok)
          /\ rresult' = IF ok THEN rresult ELSE <<"ClientCreation">>
    /\ UNCHANGED <<translations, count, progress, requests, attempted, errors,
                   server, sent>>
    /\ UNCHANGED uiVars
    /\ UNCHANGED loadVars

\* One turn of run's filter_map, first half: the progress callback, which
\* submits UPDATE_PROGRESS.
RunProgress ==
    /\ upc = "loop"
    /\ ~LoopDone(count, Len(translations), errors)
    /\ progress' = Append(progress, <<count + 1, Len(translations)>>)
    /\ sent' = Append(sent, ProgressCommand(count + 1, Len(translations)))
    /\ upc' = "exec"
    /\ UNCHANGED <<translations, client, count, requests, attempted, errors,
                   rresult, server>>
    /\ UNCHANGED uiVars
    /\ UNCHANGED loadVars

\* One turn of run's filter_map, second half: remove, update or add sends its
\* first request, which may fail.  remove and update return with its outcome;
\* add returns the error if the create failed and goes on to its second
\* request otherwise.
RunStep ==
    /\ upc = "exec"
    /\ LET t == translations[count + 1]
       IN  \E ok \in BOOLEAN :
              LET rq == FirstRequest(t, ok)
              IN  /\ ServerAccepts(server, rq)
                  /\ requests' = Append(requests, rq)
                  /\ server' = ServerApply(server, rq)
                  /\ IF IsAdded(t) /\ ok
                     THEN /\ upc' = "edit"
                          /\ UNCHANGED <<attempted, errors, count>>
                     ELSE /\ upc' = "loop"
                          /\ attempted' = Append(attempted,
                                 [t |-> t,
                                  error |-> IF ok THEN "none" ELSE RequestError(t, rq)])
                          /\ errors' = errors \o StepError(t, rq)
                          /\ count' = count + 1
    /\ UNCHANGED <<translations, client, progress, rresult, sent>>
    /\ UNCHANGED uiVars
    /\ UNCHANGED loadVars

\* add after its CreateTerm succeeded: EditTranslation for the created term,
\* which may fail, then add returns.
RunEdit ==
    /\ upc = "edit"
    /\ LET t == translations[count + 1]
       IN  \E ok \in BOOLEAN :
              LET rq == AddEditRequest(t.term, t.translation, ok)
              IN  /\ requests' = Append(requests, rq)
                  /\ server' = ServerApply(server, rq)
                  /\ attempted' = Append(attempted,
                         [t |-> t,
                          error |-> IF ok THEN "none" ELSE RequestError(t, rq)])
                  /\ errors' = errors \o StepError(t, rq)
                  /\ count' = count + 1
    /\ upc' = "loop"
    /\ UNCHANGED <<translations, client, progress, rresult, sent>>
    /\ UNCHANGED uiVars
    /\ UNCHANGED loadVars

\* The end of run: Ok(()) or Error::Update with the collected errors.
RunReturn ==
    /\ upc = "loop"
    /\ LoopDone(count, Len(translations), errors)
    /\ rresult' = RunResult(errors)
    /\ upc' = "returned"
    /\ UNCHANGED <<translations, client, count, progress, requests, attempted,
                   errors, server, sent>>
    /\ UNCHANGED uiVars
    /\ UNCHANGED loadVars

\* The last statement of the worker thread: submit UPDATE_FINISHED with the
\* result of run.
SubmitFinished ==
    /\ upc = "returned"
    /\ sent' = Append(sent, FinishedCommand(rresult))
    /\ upc' = "exited"
    /\ UNCHANGED <<translations, client, count, progress, requests, attempted,
                   errors, rresult, server>>
    /\ UNCHANGED uiVars
    /\ UNCHANGED loadVars

\* Delegate::command on the next submitted command, an UPDATE_PROGRESS.
CommandProgress ==
    /\ delivered < Len(sent)
    /\ sent[delivered + 1][1] = "UPDATE_PROGRESS"
    /\ LET d == DelegateCommand(app, sent[delivered + 1], taken, << >>)
       IN  app' = d.app /\ taken' = d.taken /\ handled' = d.handled
    /\ delivered' = delivered + 1
    /\ UNCHANGED clicked
    /\ UNCHANGED workerVars
    /\ UNCHANGED loadVars

\* Delegate::command on the next submitted command, the UPDATE_FINISHED: if
\* its payload is there, load_data runs again, any of its loaders may fail,
\* and the window is rebuilt from what it returned or from nothing.
CommandFinished ==
    /\ delivered < Len(sent)
    /\ sent[delivered + 1][1] = "UPDATE_FINISHED"
    /\ IF taken
       THEN UNCHANGED <<calls, err, pc, store, git, tentative, result>>
       ELSE /\ \E nok \in 0..Len(Loaders(revision)) : calls' = LoadCalls(revision, nok)
            /\ err' = LoadError(calls')
            /\ pc' = IF err' = "none" THEN "done" ELSE "failed"
            /\ store' = IF <<"fetch_from_traduora", "ok">> \in Range(calls')
                        THEN FetchFromTraduora(server) ELSE store
            /\ git' = IF MergeCalled(calls') THEN GitArg(revision, history) ELSE << >>
            /\ IF MergeCalled(calls')
               THEN \E t \in Tentative(file, store') :
                       /\ tentative' = t
                       /\ result' \in MergeTentative(t, git')
               ELSE tentative' = << >> /\ result' = << >>
    /\ LET d == DelegateCommand(app, sent[delivered + 1], taken, result')
       IN  app' = d.app /\ taken' = d.taken /\ handled' = d.handled
    /\ delivered' = delivered + 1
    /\ UNCHANGED <<file, history, revision>>
    /\ UNCHANGED clicked
    /\ UNCHANGED workerVars

\* Delegate::command on the next submitted command, one of ModalHost.
CommandOther ==
    /\ delivered < Len(sent)
    /\ sent[delivered + 1][1] \notin { "UPDATE_PROGRESS", "UPDATE_FINISHED" }
    /\ LET d == DelegateCommand(app, sent[delivered + 1], taken, << >>)
       IN  app' = d.app /\ taken' = d.taken /\ handled' = d.handled
    /\ delivered' = delivered + 1
    /\ UNCHANGED clicked
    /\ UNCHANGED workerVars
    /\ UNCHANGED loadVars

NextUpdate ==
    \/ Toggle
    \/ ToggleAll
    \/ ClickUpdate
    \/ ClickOk
    \/ CreateClient
    \/ RunProgress
    \/ RunStep
    \/ RunEdit
    \/ RunReturn
    \/ SubmitFinished
    \/ CommandProgress
    \/ CommandFinished
    \/ CommandOther

SpecUpdate == InitUpdate /\ [][NextUpdate]_vars

\* Variant of ToggleRunning in which the worker thread reads the actions from
\* the window's state instead of owning a copy.
ToggleRunning_Shared ==
    /\ upc # "idle"
    /\ ~taken
    /\ \E tab \in Tabs : \E i \in 1..Len(app[tab].entries) :
          app' = ToggleEntry(app, tab, i)
    /\ translations' = ExtractTranslations(app')
    /\ UNCHANGED <<delivered, taken, handled, clicked>>
    /\ UNCHANGED <<upc, client, count, progress, requests, attempted, errors,
                   rresult, server, sent>>
    /\ UNCHANGED loadVars

\* The user ticks or unticks one entry while the worker thread runs or its
\* commands wait.
ToggleRunning ==
    /\ upc # "idle"
    /\ ~taken
    /\ \E tab \in Tabs : \E i \in 1..Len(app[tab].entries) :
          app' = ToggleEntry(app, tab, i)
    /\ UNCHANGED <<delivered, taken, handled, clicked>>
    /\ UNCHANGED workerVars
    /\ UNCHANGED loadVars

\* The user ticks or unticks 'Select all' / 'Deselect all' of a tab while the
\* worker thread runs or its commands wait.
ToggleAllRunning ==
    /\ upc # "idle"
    /\ ~taken
    /\ \E tab \in Tabs : app' = ToggleSelectAll(app, tab)
    /\ UNCHANGED <<delivered, taken, handled, clicked>>
    /\ UNCHANGED workerVars
    /\ UNCHANGED loadVars

\* The update with the check boxes flipped after the click instead of before.
NextEdit ==
    \/ ClickUpdate
    \/ ClickOk
    \/ ToggleRunning
    \/ ToggleAllRunning
    \/ CreateClient
    \/ RunProgress
    \/ RunStep
    \/ RunEdit
    \/ RunReturn
    \/ SubmitFinished
    \/ CommandProgress
    \/ CommandFinished
    \/ CommandOther

SpecEdit == InitUpdate /\ [][NextEdit]_vars

\* One click of 'Update terms' on the window as main built it, and what
\* follows the click.
NextRun ==
    \/ ClickUpdate
    \/ ClickOk
    \/ CreateClient
    \/ RunProgress
    \/ RunStep
    \/ RunEdit
    \/ RunReturn
    \/ SubmitFinished
    \/ CommandProgress
    \/ CommandFinished
    \/ CommandOther

SpecRun == InitUpdate /\ [][NextRun]_vars

\* The worker thread runs to its end and the event loop of the window handles
\* every submitted command.
SpecUpdateFair ==
    /\ SpecRun
    /\ WF_vars(CreateClient)
    /\ WF_vars(RunProgress)
    /\ WF_vars(RunStep)
    /\ WF_vars(RunEdit)
    /\ WF_vars(RunReturn)
    /\ WF_vars(SubmitFinished)
    /\ WF_vars(CommandProgress)
    /\ WF_vars(CommandFinished)
    /\ WF_vars(CommandOther)

----------------------------------------------------------------------------
(* Vocabulary of the properties                                            *)

Done == pc = "done"

\* The terms of a snapshot or of an action sequence.
Keys(s) == { s[i].term : i \in 1..Len(s) }

\* The record of snapshot s with term k (k \in Keys(s)).
Rec(s, k) == s[CHOOSE i \in 1..Len(s) : s[i].term = k]

\* The positions of the actions for term k.
ActionsFor(s, k) == { i \in 1..Len(s) : s[i].term = k }

\* The data model of the reconciliation: no snapshot repeats a key.
UniqueKeys == UniqueTerms(file) /\ UniqueTerms(store) /\ UniqueTerms(git)

\* load_data returned Ok for snapshots that do not repeat a key.
DoneUnique == Done /\ UniqueKeys

InLocal(k) == k \in Keys(file)
InRemote(k) == k \in Keys(store)
InBaseline(k) == k \in Keys(git)

----------------------------------------------------------------------------
(* Properties of merge                                                     *)

\* C1: when the baseline is empty or absent, merge returns the tentative
\* sequence unchanged: every tentative Added, Updated and Removed is in the
\* final output.
C1_Bypass ==
    (DoneUnique /\ git = << >>) => result = tentative

\* C2: the output holds no Removed for a key absent from the baseline; a key
\* that is only in Remote yields no action, also under an empty baseline.
C2_NoUnconfirmedRemoval ==
    Done =>
        /\ \A i \in 1..Len(result) : IsRemoved(result[i]) => InBaseline(result[i].term)
        /\ \A k \in Terms :
              (InRemote(k) /\ ~InLocal(k) /\ ~InBaseline(k)) => ActionsFor(result, k) = {}

C2_Witness ==
    /\ Done
    /\ git # << >>
    /\ \E k \in Terms :
          /\ InRemote(k) /\ ~InLocal(k) /\ ~InBaseline(k)
          /\ \E i \in ActionsFor(tentative, k) : IsRemoved(tentative[i])

\* C3: a key in all three snapshots whose local text differs from the remote
\* text but equals the baseline text yields no action.
C3_StaleLocalSuppressed ==
    DoneUnique =>
        \A k \in Terms :
            ( /\ InLocal(k) /\ InRemote(k) /\ InBaseline(k)
              /\ Rec(file, k).translation # Rec(store, k).translation
              /\ Rec(file, k).translation = Rec(git, k).translation )
            => ActionsFor(result, k) = {}

C3_Witness ==
    /\ DoneUnique
    /\ \E k \in Terms :
          /\ InLocal(k) /\ InRemote(k) /\ InBaseline(k)
          /\ Rec(file, k).translation # ""
          /\ Rec(file, k).translation # Rec(store, k).translation
          /\ Rec(file, k).translation = Rec(git, k).translation
          /\ \E i \in ActionsFor(tentative, k) : IsUpdated(tentative[i])

\* C4: a key in all three snapshots whose local text is non-empty and differs
\* from both the remote and the baseline text yields exactly
\* Updated(remote id, key, local text), whatever the remote text is.
C4_GenuineLocalEdit ==
    DoneUnique =>
        \A k \in Terms :
            ( /\ InLocal(k) /\ InRemote(k) /\ InBaseline(k)
              /\ Rec(file, k).translation # ""
              /\ Rec(file, k).translation # Rec(store, k).translation
              /\ Rec(file, k).translation # Rec(git, k).translation )
            => /\ Cardinality(ActionsFor(result, k)) = 1
               /\ \A i \in ActionsFor(result, k) :
                     result[i] = TranslationUpdated(k, Rec(file, k).translation,
                                                    Rec(store, k).term_id)

C4_Witness ==
    /\ DoneUnique
    /\ \E k \in Terms :
          /\ InLocal(k) /\ InRemote(k) /\ InBaseline(k)
          /\ Rec(file, k).translation # ""
          /\ Rec(file, k).translation # Rec(store, k).translation
          /\ Rec(file, k).translation # Rec(git, k).translation
          /\ Rec(store, k).translation # Rec(git, k).translation
          /\ ActionsFor(result, k) # {}

\* C5: the output holds no Added for a key present in the baseline; a key in
\* Local and Baseline but not in Remote yields no action, whatever its texts.
C5_NoResurrection ==
    DoneUnique =>
        /\ \A i \in 1..Len(result) : IsAdded(result[i]) => ~InBaseline(result[i].term)
        /\ \A k \in Terms :
              (InLocal(k) /\ InBaseline(k) /\ ~InRemote(k)) => ActionsFor(result, k) = {}

C5_Witness ==
    /\ DoneUnique
    /\ \E k \in Terms :
          /\ InLocal(k) /\ InBaseline(k) /\ ~InRemote(k)
          /\ Rec(file, k).translation # Rec(git, k).translation
          /\ \E i \in ActionsFor(tentative, k) : IsAdded(tentative[i])

\* C6: a key in Remote and Baseline but not in Local yields exactly one
\* action, a Removed with the remote record's id, whatever the texts are.
C6_ConfirmedRemoval ==
    Done =>
        \A k \in Terms :
            (InRemote(k) /\ InBaseline(k) /\ ~InLocal(k))
            => /\ Cardinality(ActionsFor(result, k)) = 1
               /\ \A i \in ActionsFor(result, k) :
                     result[i].modification = ModRemoved(Rec(store, k).term_id)

C6_Witness ==
    /\ Done
    /\ \E k \in Terms :
          /\ InRemote(k) /\ InBaseline(k) /\ ~InLocal(k)
          /\ Rec(store, k).translation # Rec(git, k).translation
          /\ \E i \in ActionsFor(result, k) : IsRemoved(result[i])

\* C7: a tentative Added or Updated whose key is not in the baseline is in the
\* output as it is, also when there is no baseline.
C7_TrustTentative ==
    DoneUnique =>
        \A i \in 1..Len(tentative) :
            ((IsAdded(tentative[i]) \/ IsUpdated(tentative[i])) /\ ~InBaseline(tentative[i].term))
            => /\ Cardinality(ActionsFor(result, tentative[i].term)) = 1
               /\ \A j \in ActionsFor(result, tentative[i].term) : result[j] = tentative[i]

C7_Witness ==
    /\ DoneUnique
    /\ git # << >>
    /\ \E i, j \in 1..Len(tentative) :
          /\ IsAdded(tentative[i]) /\ ~InBaseline(tentative[i].term)
          /\ IsUpdated(tentative[j]) /\ ~InBaseline(tentative[j].term)
          /\ \E m, n \in 1..Len(result) : result[m] = tentative[i] /\ result[n] = tentative[j]

\* C8: a key in Local and Remote whose local text is empty and differs from the
\* remote text yields no action, for every baseline.
C8_EmptyTextSafety ==
    DoneUnique =>
        \A k \in Terms :
            ( /\ InLocal(k) /\ InRemote(k)
              /\ Rec(file, k).translation = ""
              /\ Rec(store, k).translation # "" )
            => ActionsFor(result, k) = {} /\ ActionsFor(tentative, k) = {}

C8_Witness ==
    /\ DoneUnique
    /\ \E k \in Terms :
          /\ InLocal(k) /\ InRemote(k) /\ InBaseline(k)
          /\ Rec(file, k).translation = ""
          /\ Rec(store, k).translation # ""
          /\ Rec(git, k).translation # ""
          /\ ActionsFor(result, k) = {}

\* The keys for which the two-way merge has to produce an action.
Differs(k) ==
    \/ InLocal(k) /\ ~InRemote(k)
    \/ InRemote(k) /\ ~InLocal(k)
    \/ /\ InLocal(k) /\ InRemote(k)
       /\ Rec(file, k).translation # Rec(store, k).translation
       /\ Rec(file, k).translation # ""

\* C9: the tentative sequence holds exactly one action for every key that is
\* only in Local, only in Remote, or in both with differing texts and a
\* non-empty local text, and no action for any other key.
C9_TwoWayComplete ==
    DoneUnique =>
        \A k \in Terms :
            Cardinality(ActionsFor(tentative, k)) = IF Differs(k) THEN 1 ELSE 0

C9_Witness ==
    /\ DoneUnique
    /\ Len(tentative) = 2
    /\ \E k \in Terms :
          /\ InLocal(k) /\ InRemote(k)
          /\ Rec(file, k).translation = Rec(store, k).translation
    /\ file \notin SortByTerm(file)

\* C10: a tentative action is Added for a key only in Local, Removed for a key
\* only in Remote, Updated for a key in both; Updated and Removed carry the
\* remote record's id, Added carries none, Added and Updated carry the local
\* text.
C10_ActionPayload ==
    DoneUnique =>
        \A i \in 1..Len(tentative) :
            LET t == tentative[i]
                k == t.term
            IN  /\ (InLocal(k) /\ ~InRemote(k)) =>
                        t = TranslationAdded(k, Rec(file, k).translation)
                /\ (InRemote(k) /\ ~InLocal(k)) =>
                        /\ IsRemoved(t)
                        /\ t.modification = ModRemoved(Rec(store, k).term_id)
                /\ (InLocal(k) /\ InRemote(k)) =>
                        t = TranslationUpdated(k, Rec(file, k).translation,
                                               Rec(store, k).term_id)
                /\ InLocal(k) \/ InRemote(k)

C10_Witness ==
    /\ DoneUnique
    /\ \E i, j, m \in 1..Len(tentative) :
          /\ IsAdded(tentative[i]) /\ tentative[i].translation = ""
          /\ IsRemoved(tentative[j])
          /\ IsUpdated(tentative[m])

\* C11: if Local and Remote hold the same key/text pairs, merge returns no
\* action, for every baseline.
C11_NoOp ==
    (DoneUnique /\ Keys(file) = Keys(store)
          /\ \A k \in Keys(file) : Rec(file, k).translation = Rec(store, k).translation)
    => result = << >>

C11_Witness ==
    /\ DoneUnique
    /\ file # << >>
    /\ Keys(file) = Keys(store)
    /\ \A k \in Keys(file) : Rec(file, k).translation = Rec(store, k).translation
    /\ \E k \in Keys(file) : Rec(file, k).translation # ""
    /\ \E k \in Keys(git) :
          k \notin Keys(file) \/ Rec(git, k).translation # Rec(file, k).translation

\* s is t with some elements left out: same elements, same relative order.
RECURSIVE IsSubSeq(_, _)
IsSubSeq(s, t) ==
    IF s = << >> THEN TRUE
    ELSE IF t = << >> THEN FALSE
    ELSE IF Head(s) = Head(t) THEN IsSubSeq(Tail(s), Tail(t))
    ELSE IsSubSeq(s, Tail(t))

\* C12: the output of merge is a sub-sequence of the tentative sequence; every
\* final action is a tentative action, unaltered.
C12_Subset ==
    Done => IsSubSeq(result, tentative)

C12_Witness ==
    /\ Done
    /\ result # << >>
    /\ Len(result) < Len(tentative)
    /\ \E i \in 1..Len(result) : IsUpdated(result[i]) /\ InBaseline(result[i].term)

\* C13: the output of merge is strictly ascending by key, whatever the order of
\* the records in the inputs.
C13_Ascending ==
    DoneUnique =>
        \A i, j \in 1..Len(result) :
            i < j => StrCmp(result[i].term, result[j].term) = "Less"

C13_Witness ==
    /\ DoneUnique
    /\ Len(result) >= 2
    /\ file \notin SortByTerm(file)
    /\ store \notin SortByTerm(store)

\* Every order of the records of s.
RECURSIVE Orderings(_)
Orderings(s) ==
    IF s = << >> THEN { << >> }
    ELSE UNION { { <<s[i]>> \o rest : rest \in Orderings(RemoveAt(s, i)) } : i \in 1..Len(s) }

\* C14: merge returns the same, identically ordered sequence for every
\* permutation of the Local, Remote and Baseline records.
C14_OrderIndependent ==
    DoneUnique =>
        \A l \in Orderings(file), r \in Orderings(store) :
            LET ts == Tentative(l, r)
            IN  \A g \in Orderings(git) :
                   UNION { MergeTentative(t, g) : t \in ts } = { result }

C14_Witness ==
    /\ DoneUnique
    /\ result # << >>
    /\ Len(file) >= 2 /\ file \notin SortByTerm(file)
    /\ Len(store) >= 2 /\ store \notin SortByTerm(store)

\* C15: a key that is only in the baseline yields no action.
C15_BaselineOnly ==
    Done =>
        \A k \in Terms :
            (InBaseline(k) /\ ~InLocal(k) /\ ~InRemote(k)) => ActionsFor(result, k) = {}

C15_Witness ==
    /\ Done
    /\ result # << >>
    /\ \E k \in Terms : InBaseline(k) /\ ~InLocal(k) /\ ~InRemote(k)

\* C19: if Local equals the baseline (same keys, same texts), merge returns no
\* action, for every Remote.
C19_NoClobber ==
    (DoneUnique /\ Keys(file) = Keys(git)
          /\ \A k \in Keys(file) : Rec(file, k).translation = Rec(git, k).translation)
    => result = << >>

C19_Witness ==
    /\ DoneUnique
    /\ file # << >>
    /\ Keys(file) = Keys(git)
    /\ \A k \in Keys(file) : Rec(file, k).translation = Rec(git, k).translation
    /\ \E i, j \in 1..Len(tentative) : IsUpdated(tentative[i]) /\ IsRemoved(tentative[j])

----------------------------------------------------------------------------
(* Properties of load_data                                                 *)

CallNames(cs) == [i \in 1..Len(cs) |-> cs[i][1]]

\* C18: if a loader fails, load_data returns that loader's error and merge is
\* not called; merge is only called after the local file, the remote fetch and,
\* with a revision configured, the git lookup have all succeeded.
C18_LoadersBeforeMerge ==
    /\ \A i \in 1..Len(calls) :
          calls[i][2] = "failed" =>
              /\ pc = "failed"
              /\ err = calls[i][1]
              /\ i = Len(calls)
              /\ ~MergeCalled(calls)
              /\ result = << >>
    /\ MergeCalled(calls) =>
          /\ pc = "done" /\ err = "none"
          /\ \A i \in 1..Len(calls) : calls[i][2] = "ok"
          /\ CallNames(calls) =
                IF revision = ""
                THEN <<"load_from_file", "fetch_from_traduora", "merge">>
                ELSE <<"load_from_file", "fetch_from_traduora", "load_from_git", "merge">>
    /\ pc # "start" => (pc = "done" <=> MergeCalled(calls))

C18_Witness ==
    /\ pc = "failed"
    /\ err = "load_from_git"
    /\ file # << >> /\ store # << >> /\ history # << >>
    /\ Tentative(file, store) # { << >> }

----------------------------------------------------------------------------
(* Properties of updater::run and of the selection                         *)

Returned == upc \in { "returned", "exited" }

ActionsAttempted == [i \in 1..Len(attempted) |-> attempted[i].t]

\* The first request of each action: every request except the EditTranslation
\* that follows a CreateTerm.
IsLeadRequest(rq) == ~(rq[1] = "EditTranslation" /\ rq[2] \in { NewTermId(k) : k \in Terms })

LeadRequests == SelectSeq(requests, IsLeadRequest)

\* The position in requests of the first request of the i-th action.
LeadPos(i) ==
    LET leads == { j \in 1..Len(requests) : IsLeadRequest(requests[j]) }
    IN  CHOOSE j \in leads : Cardinality({ m \in leads : m <= j }) = i

\* Request rq is the first request of action t.
LeadsFor(rq, t) ==
    \/ IsRemoved(t) /\ rq[1] = "DeleteTerm" /\ rq[2] = t.modification[2]
    \/ IsUpdated(t) /\ rq[1] = "EditTranslation" /\ rq[2] = t.modification[2]
                    /\ rq[3] = t.translation
    \/ IsAdded(t) /\ rq[1] = "CreateTerm" /\ rq[2] = t.term

\* C16: once the client exists, run attempts every action exactly once, in
\* input order, whether or not earlier actions failed.
C16_EveryActionAttempted ==
    /\ client = "ok" =>
          /\ Len(attempted) = count
          /\ count <= Len(translations)
          /\ \A i \in 1..count : attempted[i].t = translations[i]
          /\ Len(LeadRequests) = count + (IF upc = "edit" THEN 1 ELSE 0)
          /\ \A i \in 1..Len(LeadRequests) : LeadsFor(LeadRequests[i], translations[i])
    /\ (Returned /\ client = "ok") => ActionsAttempted = translations

C16_Witness ==
    /\ Returned /\ client = "ok"
    /\ Len(translations) >= 2
    /\ attempted[1].error # "none"
    /\ Len(attempted) = Len(translations)

\* The active entries of the tabs as actions: added, removed, updated.
ActiveOf(entries) ==
    LET isActive(e) == e.active
        act == SelectSeq(entries, isActive)
    IN  [i \in 1..Len(act) |->
            [term |-> act[i].term, translation |-> act[i].translation,
             modification |-> act[i].modification]]

ActiveEntries(a) ==
    ActiveOf(a.added.entries) \o ActiveOf(a.removed.entries) \o ActiveOf(a.updated.entries)

\* The position in ActiveEntries(a) of the active entry i of tab.
PositionOf(a, tab, i) ==
    LET before(es, n) == Len(ActiveOf(SubSeq(es, 1, n)))
    IN  (IF tab = "added" THEN 0
         ELSE IF tab = "removed" THEN Len(ActiveOf(a.added.entries))
         ELSE Len(ActiveOf(a.added.entries)) + Len(ActiveOf(a.removed.entries)))
        + before(a[tab].entries, i)

\* C17 (state part): extract_translations returns exactly the active entries
\* with their term, text and id, and unticking one entry removes that action
\* and leaves the others as they were.
C17_ExtractActive ==
    /\ ExtractTranslations(app) = ActiveEntries(app)
    /\ \A tab \in Tabs : \A i \in 1..Len(app[tab].entries) :
          app[tab].entries[i].active =>
              ExtractTranslations(ToggleEntry(app, tab, i))
                  = RemoveAt(ExtractTranslations(app), PositionOf(app, tab, i))

\* C17: selection is respected: what the click hands to the worker thread is
\* exactly the active entries at that moment (C17_ExtractActive in every
\* state), so an unticked action is never handed to updater::run.
C17_SelectionRespected ==
    /\ []C17_ExtractActive
    /\ [][(upc = "idle" /\ upc' # "idle") => translations' = ActiveEntries(app)]_vars

C17_Witness ==
    /\ Returned /\ client = "ok"
    /\ Len(attempted) = 1
    /\ \E tab \in Tabs : \E i \in 1..Len(app[tab].entries) : ~app[tab].entries[i].active
    /\ Len(app.added.entries) + Len(app.removed.entries) + Len(app.updated.entries) = 2

FailedAttempts ==
    LET failed(a) == a.error # "none"
    IN  SelectSeq(attempted, failed)

\* C20: run returns Ok(()) iff no attempted action failed; otherwise
\* Error::Update with one (term, translation, error) entry per failed action,
\* in the order of the attempts, and none for an action that succeeded.
C20_AggregateResult ==
    (Returned /\ client = "ok") =>
        /\ rresult = <<"Ok">> <=> FailedAttempts = << >>
        /\ FailedAttempts # << >> =>
              rresult = <<"Update",
                          [i \in 1..Len(FailedAttempts) |->
                              <<FailedAttempts[i].t.term,
                                FailedAttempts[i].t.translation,
                                FailedAttempts[i].error>>]>>

C20_Witness ==
    /\ Returned /\ client = "ok"
    /\ Len(attempted) = 2
    /\ attempted[1].error # "none"
    /\ attempted[2].error # "none"
    /\ attempted[1].error # attempted[2].error

----------------------------------------------------------------------------
(* Properties of the worker thread, the delegate and the window            *)

\* C21: if client creation fails, run returns Error::ClientCreation without
\* having sent any request and without having called the progress callback;
\* Error::Update is returned only after the client was created.
C21_ClientCreationFirst ==
    /\ client = "failed" =>
          /\ Returned
          /\ rresult = <<"ClientCreation">>
          /\ requests = << >>
          /\ attempted = << >>
          /\ progress = << >>
          /\ \A i \in 1..Len(sent) : sent[i][1] # "UPDATE_PROGRESS"
    /\ rresult[1] = "Update" => client = "ok"
    /\ rresult = <<"ClientCreation">> => client = "failed"

C21_Witness ==
    /\ client = "failed"
    /\ upc = "exited"
    /\ Len(translations) = 2
    /\ rresult = <<"ClientCreation">>

\* C22: add sends CreateTerm and then EditTranslation with the id the create
\* returned, and no edit if the create failed; if the create succeeded and the
\* edit failed, the term stays in the project without translation and, for
\* snapshots that do not repeat a key, exactly one error is reported and the
\* next load_data reports the key as Updated with the new id and not as
\* Added, if the local text is not empty and the key is not in the baseline.
C22_PartialAdd ==
    /\ \A i \in 1..Len(attempted) :
          IsAdded(attempted[i].t) =>
              LET t == attempted[i].t
                  id == NewTermId(t.term)
                  c == LeadPos(i)
                  edited == c < Len(requests) /\ ~IsLeadRequest(requests[c + 1])
              IN  /\ requests[c][1] = "CreateTerm" /\ requests[c][2] = t.term
                  /\ ~RequestOk(requests[c]) =>
                        /\ ~edited
                        /\ attempted[i].error = "Failed to create term"
                  /\ RequestOk(requests[c]) =>
                        /\ edited
                        /\ requests[c + 1][2] = id
                        /\ requests[c + 1][3] = t.translation
                  /\ (RequestOk(requests[c]) /\ ~RequestOk(requests[c + 1])) =>
                        /\ attempted[i].error = "Failed to set translation for new term"
                        /\ RemoteTerm(id, t.term) \in server.terms
                        /\ \A x \in server.translations : x.term_id # id
                        /\ UniqueKeys =>
                              /\ Cardinality({ e \in 1..Len(errors) :
                                                  errors[e][1] = t.term }) = 1
                              /\ (taken /\ pc = "done" /\ t.translation # ""
                                     /\ t.term \notin Keys(git)) =>
                                    /\ TranslationUpdated(t.term, t.translation, id)
                                           \in Range(result)
                                    /\ \A j \in ActionsFor(result, t.term) :
                                           ~IsAdded(result[j])
    /\ upc = "edit" =>
          /\ IsAdded(translations[count + 1])
          /\ requests[Len(requests)]
                 = <<"CreateTerm", translations[count + 1].term, TRUE>>
          /\ \E tm \in server.terms :
                 /\ tm.value = translations[count + 1].term
                 /\ \A x \in server.translations : x.term_id # tm.id

C22_Witness ==
    /\ taken
    /\ pc = "done"
    /\ UniqueKeys
    /\ \E i \in 1..Len(attempted) :
          /\ IsAdded(attempted[i].t)
          /\ attempted[i].t.translation # ""
          /\ attempted[i].error = "Failed to set translation for new term"
          /\ TranslationUpdated(attempted[i].t.term, attempted[i].t.translation,
                                NewTermId(attempted[i].t.term)) \in Range(result)

IsWorkerCommand(cmd) == cmd[1] \in { "UPDATE_PROGRESS", "UPDATE_FINISHED" }

\* The commands the worker thread submitted, in order.
WorkerCommands == SelectSeq(sent, IsWorkerCommand)

\* The commands of one run in the order of their submission: after the
\* command of the click, progress i of total as the i-th command of the
\* worker, sent before action i is executed, and UPDATE_FINISHED once, as its
\* last command, when the thread ends.
C23_CommandsInOrder ==
    /\ upc # "idle" => sent # << >> /\ sent[1] = ModalCommand
    /\ \A i \in 1..Len(sent) :
          /\ IsWorkerCommand(sent[i]) => sent[i] = WorkerCommands[i - 1]
          /\ sent[i] = DismissModal => i = Len(sent) /\ taken
    /\ \A i \in 1..Len(WorkerCommands) :
          /\ WorkerCommands[i][1] = "UPDATE_PROGRESS" =>
                WorkerCommands[i] = <<"UPDATE_PROGRESS", i, Len(translations)>>
          /\ WorkerCommands[i][1] = "UPDATE_FINISHED" =>
                i = Len(WorkerCommands) /\ upc = "exited"
    /\ upc \in { "exec", "edit" } => Len(progress) = Len(attempted) + 1
    /\ upc \notin { "exec", "edit" } => Len(progress) = Len(attempted)
    /\ upc = "exited" =>
          /\ WorkerCommands[Len(WorkerCommands)] = <<"UPDATE_FINISHED", rresult>>
          /\ Len(WorkerCommands) = (IF client = "ok" THEN Len(translations) ELSE 0) + 1
    /\ upc # "exited" => Len(WorkerCommands) = Len(progress)

\* C23: one click resets the popup to Progressing(0); the worker submits
\* progress i/total for i = 1..total in increasing order, each before action i
\* is executed, and then exactly one UPDATE_FINISHED, also without a client
\* or without actions; the popup never goes from Finished back to
\* Progressing and is Finished in the end.
C23_ProgressFinish ==
    /\ []C23_CommandsInOrder
    /\ [][(upc = "idle" /\ upc' # "idle") => app'.popup = <<"Progressing", 0, 1>>]_vars
    /\ [][app.popup[1] = "Finished" => app'.popup[1] = "Finished"]_vars
    /\ (upc # "idle") ~> (app.popup[1] = "Finished")

C23_Witness ==
    /\ app.popup[1] = "Finished"
    /\ client = "ok"
    /\ Len(translations) = 2
    /\ delivered = 4
    /\ app.popup[2] = rresult

IsPrefix(s, t) == Len(s) <= Len(t) /\ s = SubSeq(t, 1, Len(s))

\* C24: the worker executes the entries that were active when 'Update terms'
\* was clicked; check boxes flipped and progress commands handled while it
\* runs change nothing of what it executes.
C24_SnapshotAtClick ==
    upc # "idle" =>
        /\ translations = ActiveEntries(clicked)
        /\ IsPrefix(ActionsAttempted, ActiveEntries(clicked))
        /\ (Returned /\ client = "ok") => ActionsAttempted = ActiveEntries(clicked)

C24_Witness ==
    /\ upc = "exited"
    /\ client = "ok"
    /\ ~taken
    /\ delivered >= 1
    /\ Len(ActionsAttempted) = 2
    /\ ActiveEntries(app) = << >>

AllActive(a) ==
    \A tab \in Tabs : \A i \in 1..Len(a[tab].entries) : a[tab].entries[i].active

\* The actions of ts with the given variant, in the order of ts.
GroupOf(ts, kind) ==
    LET isKind(t) == t.modification[1] = kind
    IN  SelectSeq(ts, isKind)

Regrouped(ts) == GroupOf(ts, "Added") \o GroupOf(ts, "Removed") \o GroupOf(ts, "Updated")

\* Delegate::command on an UPDATE_FINISHED whose payload was taken before:
\* not handled, and the state as it was.
C25_PayloadTaken ==
    DelegateCommand(app, FinishedCommand(rresult), TRUE, result)
        = [app |-> app, taken |-> TRUE, handled |-> "No"]

\* C25: handling UPDATE_FINISHED replaces the state by one built from a fresh
\* load_data: every entry active, every 'select all' set, the popup Finished
\* with the result of the update, and three empty lists if the reload failed;
\* a command whose payload was taken before is not handled and changes
\* nothing, as every command the delegate does not handle.
C25_RefreshOnFinish ==
    /\ []C25_PayloadTaken
    /\ [][/\ (~taken /\ taken') =>
                /\ handled' = "Yes"
                /\ app'.popup = <<"Finished", rresult>>
                /\ AllActive(app')
                /\ \A tab \in Tabs : app'[tab].select_all_active
                /\ ActiveEntries(app') = Regrouped(result')
                /\ pc' = "done" =>
                      result' \in Merge(file, FetchFromTraduora(server),
                                         GitArg(revision, history))
                /\ pc' = "failed" =>
                      \A tab \in Tabs : app'[tab].entries = << >>
          /\ (delivered' # delivered /\ handled' = "No") =>
                UNCHANGED <<app, taken, clicked, workerVars, loadVars>>
         ]_vars

C25_Witness ==
    /\ taken
    /\ handled = "No"
    /\ pc = "done"
    /\ ~AllActive(clicked)
    /\ Len(ActiveEntries(app)) = 2
    /\ rresult[1] = "Update"

RECURSIVE AscendingByTerm(_)
AscendingByTerm(s) ==
    Len(s) <= 1 \/ (StrCmp(s[1].term, s[2].term) = "Less" /\ AscendingByTerm(Tail(s)))

\* No action of s is followed by one with a smaller term.
NotDescendingByTerm(s) ==
    \A i \in 1..(Len(s) - 1) : StrCmp(s[i].term, s[i + 1].term) # "Greater"

\* C26: for the actions load_data returned, taken in any order,
\* AppState::build marks every entry active and extract_translations on the
\* built state returns the same actions regrouped as Added, Removed, Updated,
\* each group in its input order; the actions handed to the worker are
\* ascending by key within a group (strictly, for snapshots that do not
\* repeat a key), not overall.
C26_BuildExtractRoundTrip ==
    /\ \A ts \in Orderings(result) :
          LET a == AppStateBuild(ts)
          IN  /\ AllActive(a)
              /\ ExtractTranslations(a) = Regrouped(ts)
    /\ LET handed == ExtractTranslations(AppStateBuild(result))
       IN  \A kind \in { "Added", "Removed", "Updated" } :
              /\ NotDescendingByTerm(GroupOf(handed, kind))
              /\ UniqueKeys => AscendingByTerm(GroupOf(handed, kind))
    /\ (upc # "idle" /\ ~taken /\ AllActive(clicked)) =>
          translations = Regrouped(result)

C26_Witness ==
    /\ upc = "spawned"
    /\ UniqueKeys
    /\ AllActive(clicked)
    /\ Len(translations) = 2
    /\ translations = Regrouped(result)
    /\ ~AscendingByTerm(translations)

====
